---- MODULE Spec2Model ----
(***************************************************************************)
(* Model of mstdn-rss2bsky-post: the pipeline driver (command_run,         *)
(* post_items, post_item in src/src/main.rs), its ledger file (db_path),   *)
(* its advisory lock (filelock_path) and the posting collaborator.         *)
(*                                                                         *)
(* Several invocations of the program (Procs) run concurrently.  Each      *)
(* invocation is a sequential process whose position is pc[p]; one action  *)
(* is one step of the code between two observable effects (a file          *)
(* operation, a lock operation, a remote call).  An invocation may be      *)
(* killed at any point (Crash); the operating system then drops its lock.  *)
(***************************************************************************)
EXTENDS Integers, Sequences, FiniteSets, TLC

----------------------------------------------------------------------------
(* Bounds and input sets *)

\* Longest feed (number of rss items) an invocation is given.
MaxFeedLen == 2

\* Longest feed of an invocation that overlaps another one.
MaxFeedLenConc == 1

\* Invocations that may run concurrently.
Procs == {"p1", "p2"}

\* The invocation of the runs that follow one another.
Solo == "p1"

\* Item identifiers (canonical links).
Ids == {"a", "b"}

\* Values of --min-save-posts the model is run with.
MinSaveChoices == {1, 2}

None == "none"

\* The last step was neither a ledger operation nor a failure.
NoEv == <<None, None, 0>>

\* An rss::Item as far as the driver looks at it: link is item.link
\* (None when absent), body tells what item.description is: absent ("none"),
\* HTML that from_html accepts ("ok") or HTML for which it returns Err ("bad").
FeedItems ==
    {[link |-> l, body |-> "ok"] : l \in Ids}
        \cup {[link |-> None, body |-> "ok"],
              [link |-> "a", body |-> None],
              [link |-> "a", body |-> "bad"]}

\* The feeds: item sequences as rss delivers them, newest first.
Feeds == UNION {[1..n -> FeedItems] : n \in 0..MaxFeedLen}

\* The items of overlapping invocations: the same kinds over one link, since
\* the lock protocol does not depend on which link an item carries.
FeedItemsConc == {i \in FeedItems : i.link # "b"}

\* The feeds of overlapping invocations.
FeedsConc == UNION {[1..n -> FeedItemsConc] : n \in 0..MaxFeedLenConc}

----------------------------------------------------------------------------
VARIABLES
    dbExists,        \* the ledger file db_path exists
    dbFile,          \* its lines, in file order
    lockFile,        \* the sentinel file: "absent", "empty" or "stamped"
    holds,           \* the invocations holding the advisory lock
    posted,          \* the identifiers of the records create_record has created
    min_save_posts,  \* the configured --min-save-posts
    pc,              \* position of each invocation
    result,          \* what command_run returned: None while running
    dry_run,         \* --dry-run of the invocation
    session,         \* client.access_did is Some
    items,           \* the fetched channel.items
    done_links,      \* HashSet loaded from the ledger
    links_for_save,  \* Vec rewritten at the end of the cycle
    pos,             \* items of items.iter().rev() already handled
    wr,              \* lines of links_for_save already written back
    n_loaded,        \* history: number of lines the load read
    snap,            \* history: the ledger as it was when the rewrite opened it
    lastCycle,       \* history: <<feed>> of the cycle that just completed, while
                     \* no invocation has started since; else <<>>
    again,           \* history: this run directly follows a completed cycle on the same feed
    recorded,        \* history: the links appended since the ledger was last truncated
    ev,              \* history: <<invocation, what, n>> of the last step when it
                     \* was a ledger operation or returned an error, n being the
                     \* number of links the run had appended by then; else NoEv
    offered,         \* history: the number of items with a description and a
                     \* link in the feed at feed_url when the invocation started
    cycle,           \* history: what the invocation has done to the ledger so
                     \* far: "Uninitialized", "Loaded" (read to its end),
                     \* "Appending" (a link appended), "Rewritten" (truncated)
    sink,            \* from_html: the token stream and the Html2RichTextSink
    post             \* post_item: the locals of the composition of one post

fileVars == <<dbExists, dbFile, lockFile, holds, posted>>
procVars == <<pc, result, dry_run, session, items, done_links,
              links_for_save, pos, wr, n_loaded, again, offered>>
vars == <<dbExists, dbFile, lockFile, holds, posted, min_save_posts,
          pc, result, dry_run, session, items, done_links,
          links_for_save, pos, wr, n_loaded, snap, lastCycle, again,
          recorded, ev, offered, cycle, sink, post>>

----------------------------------------------------------------------------
(* Helpers *)

Range(s) == {s[i] : i \in 1..Len(s)}

\* The last n elements of s (all of s when it is shorter).
LastN(s, n) ==
    IF Len(s) <= n THEN s ELSE SubSeq(s, Len(s) - n + 1, Len(s))

\* Positions of an invocation that has returned or died.
Stopped == {"idle", "returned", "crashed"}

\* No other invocation is running.
Alone(p) == \A q \in Procs \ {p} : pc[q] \in Stopped

\* The links pushed to links_for_save by the loop over the items: what
\* follows the lines that the load kept.
NewLinks(p) ==
    LET kept == IF n_loaded[p] < min_save_posts THEN n_loaded[p]
                ELSE min_save_posts
    IN  SubSeq(links_for_save[p], kept + 1, Len(links_for_save[p]))

NewCount(p) == Len(NewLinks(p))

\* The number of items of a feed that have a description and a link.
Complete(feed) ==
    Cardinality({k \in 1..Len(feed) :
                    feed[k].body # None /\ feed[k].link # None})

\* items.iter().rev(): the item handled after k items were handled.
ItemAt(its, k) == its[Len(its) - k]

\* The load loop with the queue trimmed one line too early (>= for >).
RECURSIVE LoadLines_OffByOne(_, _, _, _, _)
LoadLines_OffByOne(lines, i, done, queue, min) ==
    IF i > Len(lines)
    THEN [done_links |-> done, links_for_save |-> queue]
    ELSE LET pushed == Append(queue, lines[i])
         IN  LoadLines_OffByOne(lines, i + 1, done \cup {lines[i]},
                                IF Len(pushed) >= min THEN Tail(pushed)
                                ELSE pushed,
                                min)

\* post_items, lines 209-219: the loop over the lines of the ledger.  Every
\* line goes into the set; the queue keeps the newest min lines.
RECURSIVE LoadLines(_, _, _, _, _)
LoadLines(lines, i, done, queue, min) ==
    IF i > Len(lines)
    THEN [done_links |-> done, links_for_save |-> queue]
    ELSE LET pushed == Append(queue, lines[i])
         IN  LoadLines(lines, i + 1, done \cup {lines[i]},
                       IF Len(pushed) > min THEN Tail(pushed) ELSE pushed,
                       min)

\* A lock that stays held when the invocation ends.
Unlock_Leak(p) == holds

\* Drop of the FileLock value (and the kernel's cleanup when a process
\* dies): the invocation no longer holds the advisory lock.
Unlock(p) == holds \ {p}

\* A lock that is granted whoever holds it.
LockFree_Always(p) == TRUE

\* FileLock::lock(path, false, ..): the non-blocking lock is granted only
\* when no other invocation holds it.
LockFree(p) == holds \ {p} = {}

\* The position after an item was handled: the loop goes on while items
\* remain and falls through to the rewrite block after the last one.
AfterItem(p, handled) ==
    IF handled < Len(items[p]) THEN "item" ELSE "rewrite_open"

----------------------------------------------------------------------------
Init ==
    /\ dbExists \in BOOLEAN
    /\ dbFile = <<>>
    /\ lockFile = "absent"
    /\ holds = {}
    /\ posted = {}
    /\ min_save_posts \in MinSaveChoices
    /\ pc = [p \in Procs |-> "idle"]
    /\ result = [p \in Procs |-> None]
    /\ dry_run = [p \in Procs |-> FALSE]
    /\ session = [p \in Procs |-> FALSE]
    /\ items = [p \in Procs |-> <<>>]
    /\ done_links = [p \in Procs |-> {}]
    /\ links_for_save = [p \in Procs |-> <<>>]
    /\ pos = [p \in Procs |-> 0]
    /\ wr = [p \in Procs |-> 0]
    /\ n_loaded = [p \in Procs |-> 0]
    /\ snap = [p \in Procs |-> <<>>]
    /\ lastCycle = <<>>
    /\ again = [p \in Procs |-> FALSE]
    /\ recorded = {}
    /\ ev = NoEv
    /\ offered = [p \in Procs |-> 0]
    /\ cycle = [p \in Procs |-> "Uninitialized"]
    /\ sink = [st |-> "idle"]
    /\ post = [st |-> "idle"]

----------------------------------------------------------------------------
(* Building blocks of the actions *)

\* The locals of post_items and command_run go away when they return.
ResetLocals(p) ==
    /\ dry_run' = [dry_run EXCEPT ![p] = FALSE]
    /\ session' = [session EXCEPT ![p] = FALSE]
    /\ items' = [items EXCEPT ![p] = <<>>]
    /\ done_links' = [done_links EXCEPT ![p] = {}]
    /\ links_for_save' = [links_for_save EXCEPT ![p] = <<>>]
    /\ pos' = [pos EXCEPT ![p] = 0]
    /\ wr' = [wr EXCEPT ![p] = 0]
    /\ n_loaded' = [n_loaded EXCEPT ![p] = 0]
    /\ again' = [again EXCEPT ![p] = FALSE]
    /\ snap' = [snap EXCEPT ![p] = <<>>]
    /\ offered' = [offered EXCEPT ![p] = 0]
    /\ cycle' = [cycle EXCEPT ![p] = "Uninitialized"]
    /\ UNCHANGED <<sink, post>>

\* command_run returns r: an early return by `?` or the final Ok(()).  The
\* FileLock local, if it was created, is dropped on the way out.
Return(p, r) ==
    /\ pc' = [pc EXCEPT ![p] = "returned"]
    /\ result' = [result EXCEPT ![p] = r]
    /\ holds' = Unlock(p)
    /\ ResetLocals(p)

\* A step that fails with error r and changes no file.
Fail(p, r) ==
    /\ Return(p, r)
    /\ ev' = <<p, r, NewCount(p)>>
    /\ UNCHANGED <<dbExists, dbFile, lockFile, posted, min_save_posts, recorded,
                   lastCycle>>

Goto(p, to) == pc' = [pc EXCEPT ![p] = to]

----------------------------------------------------------------------------
(* command_run *)

\* main.rs 98-117: a new invocation; fetch_items returns no item at all in
\* a dry run and the items of the channel otherwise.
Start(p, d, feed) ==
    /\ pc[p] \in Stopped
    /\ pc' = [pc EXCEPT ![p] = IF d THEN "open_db" ELSE "session"]
    /\ result' = [result EXCEPT ![p] = None]
    /\ dry_run' = [dry_run EXCEPT ![p] = d]
    /\ items' = [items EXCEPT ![p] = IF d THEN <<>> ELSE feed]
    /\ again' = [again EXCEPT ![p] = ~d /\ lastCycle = <<feed>> /\ Alone(p)]
    /\ offered' = [offered EXCEPT ![p] = Complete(feed)]
    /\ lastCycle' = <<>>
    /\ ev' = NoEv
    /\ UNCHANGED <<fileVars, min_save_posts, recorded, session, done_links,
                   links_for_save, pos, wr, n_loaded, snap, cycle, sink,
                   post>>

\* main.rs 153: fetch_channel fails (not in a dry run, which fetches nothing).
FetchFail(p) ==
    /\ pc[p] \in Stopped
    /\ Fail(p, "Err: fetch")

\* main.rs 121-127: create_session succeeds and the session is stored.
CreateSession(p) ==
    /\ pc[p] = "session"
    /\ Goto(p, "open_db")
    /\ session' = [session EXCEPT ![p] = TRUE]
    /\ ev' = NoEv
    /\ UNCHANGED <<fileVars, min_save_posts, recorded, result, dry_run, items,
                   done_links, links_for_save, pos, wr, n_loaded, snap,
                   lastCycle, again,
                   offered, cycle, sink, post>>

\* main.rs 126: create_session fails.
CreateSessionFail(p) ==
    /\ pc[p] = "session"
    /\ Fail(p, "Err: session")

----------------------------------------------------------------------------
(* post_items *)

\* The creation of the ledger file without the test of dry_run.
OpenDb_IgnoresDryRun(p) ==
    /\ pc[p] = "open_db"
    /\ Goto(p, "lock")
    /\ dbExists' = TRUE
    /\ ev' = <<p, "create", 0>>
    /\ UNCHANGED <<dbFile, lockFile, holds, posted, min_save_posts, recorded,
                   result, dry_run, session, items, done_links,
                   links_for_save, pos, wr, n_loaded, snap, lastCycle, again,
                   offered, cycle, sink, post>>

\* main.rs 174-184: the ledger file is created when it is absent, by an
\* open in append mode and a write of zero bytes; a dry run only prints.
OpenDb(p) ==
    /\ pc[p] = "open_db"
    /\ Goto(p, "lock")
    /\ dbExists' = (dbExists \/ ~dry_run[p])
    /\ ev' = IF dry_run[p] THEN NoEv ELSE <<p, "create", 0>>
    /\ UNCHANGED <<dbFile, lockFile, holds, posted, min_save_posts, recorded, result,
                   dry_run, session, items, done_links, links_for_save,
                   pos, wr, n_loaded, snap, lastCycle, again,
                   offered, cycle, sink, post>>

\* main.rs 182-183: that open or write fails.
OpenDbFail(p) ==
    /\ pc[p] = "open_db"
    /\ ~dry_run[p]
    /\ Fail(p, "Err: open db")

\* main.rs 186-187, 275: a dry run prints and returns Ok.
DryReturn(p) ==
    /\ pc[p] = "lock"
    /\ dry_run[p]
    /\ Return(p, "Ok")
    /\ ev' = NoEv
    /\ UNCHANGED <<dbExists, dbFile, lockFile, posted, min_save_posts, recorded,
                   lastCycle>>

\* main.rs 189-197: FileLock::lock opens the sentinel file (create,
\* truncate) and is granted the lock.
LockAcquire(p) ==
    /\ pc[p] = "lock"
    /\ ~dry_run[p]
    /\ LockFree(p)
    /\ Goto(p, "stamp")
    /\ lockFile' = "empty"
    /\ holds' = holds \cup {p}
    /\ ev' = NoEv
    /\ UNCHANGED <<dbExists, dbFile, posted, min_save_posts, recorded, result,
                   dry_run, session, items, done_links, links_for_save,
                   pos, wr, n_loaded, snap, lastCycle, again,
                   offered, cycle, sink, post>>

\* main.rs 197: the lock is held by another invocation; the sentinel file
\* was opened, and so truncated, before the lock was asked for.
LockBusy(p) ==
    /\ pc[p] = "lock"
    /\ ~dry_run[p]
    /\ ~LockFree(p)
    /\ Return(p, "Err: lock")
    /\ lockFile' = "empty"
    /\ ev' = <<p, "Err: lock", 0>>
    /\ UNCHANGED <<dbExists, dbFile, posted, min_save_posts, recorded, lastCycle>>

\* The timestamp write followed at once by the loop over the items, the
\* ledger not being read.
Stamp_SkipsLoad(p) ==
    /\ pc[p] = "stamp"
    /\ Goto(p, "open_append")
    /\ lockFile' = "stamped"
    /\ ev' = NoEv
    /\ UNCHANGED <<dbExists, dbFile, holds, posted, min_save_posts, recorded,
                   result, dry_run, session, items, done_links,
                   links_for_save, pos, wr, n_loaded, snap, lastCycle, again,
                   offered, cycle, sink, post>>

\* main.rs 198: the timestamp line is written to the sentinel file.
Stamp(p) ==
    /\ pc[p] = "stamp"
    /\ Goto(p, "load")
    /\ lockFile' = "stamped"
    /\ ev' = NoEv
    /\ UNCHANGED <<dbExists, dbFile, holds, posted, min_save_posts, recorded, result,
                   dry_run, session, items, done_links, links_for_save,
                   pos, wr, n_loaded, snap, lastCycle, again,
                   offered, cycle, sink, post>>

\* main.rs 199: that write fails.
StampFail(p) ==
    /\ pc[p] = "stamp"
    /\ Fail(p, "Err: write lock")

\* main.rs 201-221: the ledger is opened for reading and read to its end.
Load(p) ==
    /\ pc[p] = "load"
    /\ dbExists
    /\ LET l == LoadLines(dbFile, 1, {}, <<>>, min_save_posts)
       IN  /\ done_links' = [done_links EXCEPT ![p] = l.done_links]
           /\ links_for_save' = [links_for_save EXCEPT ![p] = l.links_for_save]
    /\ n_loaded' = [n_loaded EXCEPT ![p] = Len(dbFile)]
    /\ Goto(p, "open_append")
    /\ ev' = <<p, "read", 0>>
    /\ UNCHANGED <<fileVars, min_save_posts, recorded, result, dry_run, session,
                   items, pos, wr, snap, lastCycle, again, offered, sink, post>>
    /\ cycle' = [cycle EXCEPT ![p] = "Loaded"]

\* main.rs 208, 210: the open or the read of a line fails.
LoadFail(p) ==
    /\ pc[p] = "load"
    /\ Fail(p, "Err: read db")

\* main.rs 224-229: the ledger is opened in append mode for the loop.
OpenAppend(p) ==
    /\ pc[p] = "open_append"
    /\ Goto(p, AfterItem(p, 0))
    /\ dbExists' = TRUE
    /\ ev' = <<p, "open", 0>>
    /\ UNCHANGED <<dbFile, lockFile, holds, posted, min_save_posts, recorded, result,
                   dry_run, session, items, done_links, links_for_save,
                   pos, wr, n_loaded, snap, lastCycle, again,
                   offered, cycle, sink, post>>

\* main.rs 229: that open fails.
OpenAppendFail(p) ==
    /\ pc[p] = "open_append"
    /\ Fail(p, "Err: open db")

----------------------------------------------------------------------------
(* post_item, called for the items oldest first (items.iter().rev()) *)

CurItem(p) == ItemAt(items[p], pos[p])

\* main.rs 309-314: the item has no description; the error is propagated
\* by `?` in post_item and again by `.await?` in post_items (line 238).
ItemNoDescription(p) ==
    /\ pc[p] = "item"
    /\ CurItem(p).body = None
    /\ Fail(p, "Err: no description")

\* main.rs 315-320: the item has no link; propagated the same way.
ItemNoLink(p) ==
    /\ pc[p] = "item"
    /\ CurItem(p).body # None
    /\ CurItem(p).link = None
    /\ Fail(p, "Err: no link")

\* main.rs 322-327, 240-245: the link is in the loaded set; nothing is
\* composed or submitted and the loop goes to the next item.
ItemAlreadyPosted(p) ==
    /\ pc[p] = "item"
    /\ CurItem(p).body # None
    /\ CurItem(p).link # None
    /\ CurItem(p).link \in done_links[p]
    /\ pos' = [pos EXCEPT ![p] = pos[p] + 1]
    /\ Goto(p, AfterItem(p, pos[p] + 1))
    /\ ev' = NoEv
    /\ UNCHANGED <<fileVars, min_save_posts, recorded, result, dry_run, session,
                   items, done_links, links_for_save, wr, n_loaded, snap,
                   lastCycle, again,
                   offered, cycle, sink, post>>

\* main.rs 334: from_html returns Err; propagated by `?`.
ItemParseError(p) ==
    /\ pc[p] = "item"
    /\ CurItem(p).body = "bad"
    /\ CurItem(p).link # None
    /\ CurItem(p).link \notin done_links[p]
    /\ Fail(p, "Err: parse")

\* main.rs 329-417: the description is segmented and the post composed.
ItemCompose(p) ==
    /\ pc[p] = "item"
    /\ CurItem(p).body = "ok"
    /\ CurItem(p).link # None
    /\ CurItem(p).link \notin done_links[p]
    /\ Goto(p, "submit")
    /\ ev' = NoEv
    /\ UNCHANGED <<fileVars, min_save_posts, recorded, result, dry_run, session,
                   items, done_links, links_for_save, pos, wr, n_loaded,
                   snap, lastCycle, again,
                   offered, cycle, sink, post>>

\* main.rs 419, 433-494: post_to_bsky succeeds: the record was created.
SubmitOk(p) ==
    /\ pc[p] = "submit"
    /\ session[p]
    /\ posted' = posted \cup {CurItem(p).link}
    /\ Goto(p, "append")
    /\ ev' = NoEv
    /\ UNCHANGED <<dbExists, dbFile, lockFile, holds, min_save_posts, recorded, result,
                   dry_run, session, items, done_links, links_for_save,
                   pos, wr, n_loaded, snap, lastCycle, again,
                   offered, cycle, sink, post>>

\* A failed submission that is reported and skipped: the loop goes on.
SubmitFail_Continue(p) ==
    /\ pc[p] = "submit"
    /\ pos' = [pos EXCEPT ![p] = pos[p] + 1]
    /\ Goto(p, AfterItem(p, pos[p] + 1))
    /\ ev' = <<p, "Err: post", NewCount(p)>>
    /\ UNCHANGED <<fileVars, min_save_posts, recorded, result, dry_run,
                   session, items, done_links, links_for_save, wr, n_loaded,
                   snap, lastCycle, again,
                   offered, cycle, sink, post>>

\* main.rs 419: post_to_bsky fails (no session, upload or create_record
\* error); propagated by `?` out of post_item and post_items.
SubmitFail(p) ==
    /\ pc[p] = "submit"
    /\ Fail(p, "Err: post")

\* The append without its write reaching the file (the link is only kept
\* in memory for the rewrite).
AppendOk_NotWritten(p) ==
    /\ pc[p] = "append"
    /\ recorded' = recorded \cup {CurItem(p).link}
    /\ links_for_save' =
           [links_for_save EXCEPT ![p] = Append(@, CurItem(p).link)]
    /\ pos' = [pos EXCEPT ![p] = pos[p] + 1]
    /\ Goto(p, AfterItem(p, pos[p] + 1))
    /\ ev' = <<p, "append", NewCount(p) + 1>>
    /\ UNCHANGED <<dbExists, dbFile, lockFile, holds, posted, min_save_posts,
                   result, dry_run, session, items, done_links, wr, n_loaded,
                   snap, lastCycle, again, offered, sink, post>>
    /\ cycle' = [cycle EXCEPT ![p] = "Appending"]

\* main.rs 246-257: the link is written as one line to the ledger, the
\* file is flushed and the link pushed to links_for_save.
AppendOk(p) ==
    /\ pc[p] = "append"
    /\ dbFile' = Append(dbFile, CurItem(p).link)
    /\ recorded' = recorded \cup {CurItem(p).link}
    /\ links_for_save' =
           [links_for_save EXCEPT ![p] = Append(@, CurItem(p).link)]
    /\ pos' = [pos EXCEPT ![p] = pos[p] + 1]
    /\ Goto(p, AfterItem(p, pos[p] + 1))
    /\ ev' = <<p, "append", NewCount(p) + 1>>
    /\ UNCHANGED <<dbExists, lockFile, holds, posted, min_save_posts, result,
                   dry_run, session, items, done_links, wr, n_loaded, snap,
                   lastCycle, again, offered, sink, post>>
    /\ cycle' = [cycle EXCEPT ![p] = "Appending"]

\* main.rs 252, 255: the write or the flush fails.
AppendFail(p) ==
    /\ pc[p] = "append"
    /\ Fail(p, "Err: write db")

----------------------------------------------------------------------------
(* post_items, the rewrite block *)

\* main.rs 263-267: the ledger is opened with truncate: it is empty now.
RewriteOpen(p) ==
    /\ pc[p] = "rewrite_open"
    /\ dbExists
    /\ snap' = [snap EXCEPT ![p] = dbFile]
    /\ dbFile' = <<>>
    /\ recorded' = {}
    /\ wr' = [wr EXCEPT ![p] = 0]
    /\ Goto(p, "rewrite_write")
    /\ ev' = <<p, "truncate", NewCount(p)>>
    /\ UNCHANGED <<dbExists, lockFile, holds, posted, min_save_posts, result,
                   dry_run, session, items, done_links, links_for_save,
                   pos, n_loaded, lastCycle, again, offered, sink, post>>
    /\ cycle' = [cycle EXCEPT ![p] = "Rewritten"]

\* main.rs 267: that open fails; nothing was truncated.
RewriteOpenFail(p) ==
    /\ pc[p] = "rewrite_open"
    /\ Fail(p, "Err: open db")

\* main.rs 268-271: one line of links_for_save is written.
RewriteWrite(p) ==
    /\ pc[p] = "rewrite_write"
    /\ wr[p] < Len(links_for_save[p])
    /\ dbFile' = Append(dbFile, links_for_save[p][wr[p] + 1])
    /\ wr' = [wr EXCEPT ![p] = wr[p] + 1]
    /\ ev' = <<p, "write", NewCount(p)>>
    /\ UNCHANGED <<dbExists, lockFile, holds, posted, min_save_posts, recorded, pc,
                   result, dry_run, session, items, done_links,
                   links_for_save, pos, n_loaded, snap, lastCycle, again,
                   offered, cycle, sink, post>>

\* main.rs 270: a write fails; the lines written so far stay.
RewriteWriteFail(p) ==
    /\ pc[p] = "rewrite_write"
    /\ wr[p] < Len(links_for_save[p])
    /\ Fail(p, "Err: write db")

\* main.rs 272-275, 140-142: all lines are written; post_items and
\* command_run return Ok and the lock is dropped.
Finish(p) ==
    /\ pc[p] = "rewrite_write"
    /\ wr[p] = Len(links_for_save[p])
    /\ Return(p, "Ok")
    /\ lastCycle' = IF Alone(p) THEN <<items[p]>> ELSE <<>>
    /\ ev' = NoEv
    /\ UNCHANGED <<dbExists, dbFile, lockFile, posted, min_save_posts, recorded>>

\* The process of a running invocation dies (kill, power loss of the
\* process, panic=abort): nothing more is written and the kernel drops the
\* advisory lock with the file descriptor.
Crash(p) ==
    /\ pc[p] \notin Stopped
    /\ pc' = [pc EXCEPT ![p] = "crashed"]
    /\ result' = [result EXCEPT ![p] = None]
    /\ holds' = Unlock(p)
    /\ ResetLocals(p)
    /\ ev' = NoEv
    /\ UNCHANGED <<dbExists, dbFile, lockFile, posted, min_save_posts, recorded,
                   lastCycle>>

----------------------------------------------------------------------------
\* One step of invocation p, whose feed is drawn from fs.
Step(p, fs) ==
    \/ \E d \in BOOLEAN, feed \in fs : Start(p, d, feed)
    \/ FetchFail(p)
    \/ CreateSession(p)
    \/ CreateSessionFail(p)
    \/ OpenDb(p)
    \/ OpenDbFail(p)
    \/ DryReturn(p)
    \/ LockAcquire(p)
    \/ Stamp(p)
    \/ StampFail(p)
    \/ Load(p)
    \/ LoadFail(p)
    \/ OpenAppend(p)
    \/ OpenAppendFail(p)
    \/ ItemNoDescription(p)
    \/ ItemNoLink(p)
    \/ ItemAlreadyPosted(p)
    \/ ItemParseError(p)
    \/ ItemCompose(p)
    \/ SubmitOk(p)
    \/ SubmitFail(p)
    \/ AppendOk(p)
    \/ AppendFail(p)
    \/ RewriteOpen(p)
    \/ RewriteOpenFail(p)
    \/ RewriteWrite(p)
    \/ RewriteWriteFail(p)
    \/ Finish(p)
    \/ Crash(p)

\* The invocations follow one another (a scheduler that never overlaps
\* them): one process identity runs again and again, over any feeds.
Next == Step(Solo, Feeds)

Spec == Init /\ [][Next]_vars

\* Overlapping invocations (concurrent cron triggers), over short feeds.
NextConc == \E p \in Procs : Step(p, FeedsConc) \/ LockBusy(p)

SpecConc == Init /\ [][NextConc]_vars

----------------------------------------------------------------------------
(* Text: characters, bytes and usize arithmetic *)

\* What the composition and the segmentation leave alone.
driverVars == <<dbExists, dbFile, lockFile, holds, posted, min_save_posts,
                pc, result, dry_run, session, items, done_links,
                links_for_save, pos, wr, n_loaded, snap, lastCycle, again,
                recorded, ev, offered, cycle>>

\* The characters the texts are made of: c1..c4 are characters whose UTF-8
\* encoding is 1 to 4 bytes long, "." and "\n" those of the ellipsis marker.
Chars == {"c1", "c2", "c3", "c4", ".", "\n"}

\* char::len_utf8: the number of bytes of the UTF-8 encoding of c.
len_utf8(c) ==
    CASE c = "c2" -> 2
      [] c = "c3" -> 3
      [] c = "c4" -> 4
      [] OTHER -> 1

\* String::len(): the length in bytes of a text given as its characters.
RECURSIVE ByteLen(_)
ByteLen(t) == IF t = <<>> THEN 0 ELSE len_utf8(Head(t)) + ByteLen(Tail(t))

\* The UTF-8 encoding of a text: byte k of character c is <<c, k>>.
RECURSIVE Bytes(_)
Bytes(t) ==
    IF t = <<>> THEN <<>>
    ELSE [k \in 1..len_utf8(Head(t)) |-> <<Head(t), k>>] \o Bytes(Tail(t))

\* A usize is kept as an integer: n >= 0 is itself and n < 0 stands for
\* 2^64 + n, the value a subtraction below zero wraps to in a build without
\* overflow checks.  Addition and subtraction are those of the integers;
\* the order is the unsigned one.
UGt(a, b) == IF (a < 0) = (b < 0) THEN a > b ELSE a < 0

ULe(a, b) == ~UGt(a, b)

\* text.chars().take(n), n a usize.
Take(t, n) == IF UGt(n, Len(t)) THEN t ELSE SubSeq(t, 1, n)

----------------------------------------------------------------------------
(* post_item, the composition of one post (main.rs 329-407) *)

\* Largest --post-text-limit the composition is run with.
MaxLimit == 10

\* Most segments of a description.
MaxSegs == 2

\* The texts of the segments.
Texts == {<<>>, <<"c1">>, <<"c2", "c3">>, <<"c3", "c4">>, <<"c4", "c1", "c2">>}

\* The texts of the Link segments.
LinkTexts == {<<>>, <<"c2", "c3">>, <<"c4", "c1", "c2">>}

\* RichTextSegment (richtext/mod.rs).
Segments ==
    {[kind |-> "PlainText", text |-> t] : t \in Texts}
        \cup {[kind |-> "Link", text |-> t, link |-> u] :
                 t \in LinkTexts, u \in {<<"c1">>, <<"c4">>}}

\* The values of from_html the composition is run on.
RichTexts == UNION {[1..n -> Segments] : n \in 0..MaxSegs}

\* original_link_prefix and item_link: the trailing text and the item URL.
Trailers ==
    {[original_link_prefix |-> <<>>, item_link |-> <<"c1">>],
     [original_link_prefix |-> <<"c3">>, item_link |-> <<"c1">>],
     [original_link_prefix |-> <<"c3">>, item_link |-> <<"c1", "c2">>]}

\* The ellipsis marker "...\n".
Ellipsis == <<".", ".", ".", "\n">>

\* The locals of post_item when the description has been segmented: at
\* "budget" nothing is computed yet.  checks tells whether the build has
\* overflow checks (a debug build) or not (a release build).
PostInit ==
    {[st |-> "budget", checks |-> c, post_text_limit |-> l,
      original_link_prefix |-> tr.original_link_prefix,
      item_link |-> tr.item_link, segs |-> r, i |-> 0,
      content |-> <<>>, limit_count |-> 0, need_truncate |-> FALSE,
      facets |-> <<>>] :
        c \in BOOLEAN, l \in 0..MaxLimit, tr \in Trailers, r \in RichTexts}

\* main.rs 330-331 as the integers compute it.
Budget(q) ==
    q.post_text_limit - Len(q.original_link_prefix) - Len(q.item_link) - 4

\* main.rs 329-333: the remaining-character budget.  A build without
\* overflow checks wraps when a subtraction goes below zero.
ComposeBudget ==
    /\ post.st = "budget"
    /\ Budget(post) >= 0 \/ ~post.checks
    /\ post' = [post EXCEPT !.st = "segs", !.limit_count = Budget(post)]
    /\ UNCHANGED <<driverVars, sink>>

\* main.rs 331: with overflow checks a subtraction below zero panics.
ComposePanic ==
    /\ post.st = "budget"
    /\ Budget(post) < 0
    /\ post.checks
    /\ post' = [post EXCEPT !.st = "panic"]
    /\ UNCHANGED <<driverVars, sink>>

\* The fit test with >= for >: a text that exactly fills the budget is cut.
Fit_CutAtEqual(q, text) ==
    IF ~UGt(q.limit_count, Len(text))
    THEN [q EXCEPT !.content = @ \o Take(text, q.limit_count),
                   !.need_truncate = TRUE,
                   !.limit_count = 0]
    ELSE [q EXCEPT !.content = @ \o text,
                   !.limit_count = @ - Len(text)]

\* main.rs 337-348 and 355-368: the text of a segment is appended whole
\* when it fits the budget and cut to the budget otherwise.
Fit(q, text) ==
    IF UGt(Len(text), q.limit_count)
    THEN [q EXCEPT !.content = @ \o Take(text, q.limit_count),
                   !.need_truncate = TRUE,
                   !.limit_count = 0]
    ELSE [q EXCEPT !.content = @ \o text,
                   !.limit_count = @ - Len(text)]

\* The segment the loop is at.
Seg(q) == q.segs[q.i + 1]

\* The loop at line 334 runs on: no break yet and a segment is left.
InSegs(q) ==
    /\ q.st = "segs"
    /\ ~q.need_truncate
    /\ q.i < Len(q.segs)

\* main.rs 336-353: a PlainText segment.
ComposePlainText ==
    /\ InSegs(post)
    /\ Seg(post).kind = "PlainText"
    /\ post' = [Fit(post, Seg(post).text) EXCEPT !.i = @ + 1]
    /\ UNCHANGED <<driverVars, sink>>

\* The Link arm with every span starting at byte 0.
ComposeLink_StartAtZero ==
    /\ InSegs(post)
    /\ Seg(post).kind = "Link"
    /\ LET q == Fit(post, Seg(post).text)
       IN  post' = [q EXCEPT !.i = @ + 1,
                             !.facets = Append(@,
                                 [byte_start |-> 0,
                                  byte_end |-> ByteLen(q.content),
                                  uri |-> Seg(post).link])]
    /\ UNCHANGED <<driverVars, sink>>

\* main.rs 354-385: a Link segment; its span is the byte length of the
\* content before and after its text.
ComposeLink ==
    /\ InSegs(post)
    /\ Seg(post).kind = "Link"
    /\ LET q == Fit(post, Seg(post).text)
       IN  post' = [q EXCEPT !.i = @ + 1,
                             !.facets = Append(@,
                                 [byte_start |-> ByteLen(post.content),
                                  byte_end |-> ByteLen(q.content),
                                  uri |-> Seg(post).link])]
    /\ UNCHANGED <<driverVars, sink>>

\* The tail with the span of the item URL counted in characters.
ComposeTail_CharOffsets ==
    /\ post.st = "segs"
    /\ post.need_truncate \/ post.i = Len(post.segs)
    /\ LET body == post.content
                     \o (IF post.need_truncate THEN Ellipsis ELSE <<>>)
                     \o post.original_link_prefix
       IN  post' = [post EXCEPT
                       !.st = "done",
                       !.content = body \o post.item_link,
                       !.facets = Append(@,
                           [byte_start |-> Len(body),
                            byte_end |-> Len(body \o post.item_link),
                            uri |-> post.item_link])]
    /\ UNCHANGED <<driverVars, sink>>

\* main.rs 389-407: the ellipsis marker after a cut, the trailing text, the
\* item URL and its span.
ComposeTail ==
    /\ post.st = "segs"
    /\ post.need_truncate \/ post.i = Len(post.segs)
    /\ LET body == post.content
                     \o (IF post.need_truncate THEN Ellipsis ELSE <<>>)
                     \o post.original_link_prefix
       IN  post' = [post EXCEPT
                       !.st = "done",
                       !.content = body \o post.item_link,
                       !.facets = Append(@,
                           [byte_start |-> ByteLen(body),
                            byte_end |-> ByteLen(body \o post.item_link),
                            uri |-> post.item_link])]
    /\ UNCHANGED <<driverVars, sink>>

\* The driver at rest.
InitDriver ==
    /\ dbExists = FALSE
    /\ dbFile = <<>>
    /\ lockFile = "absent"
    /\ holds = {}
    /\ posted = {}
    /\ min_save_posts = 1
    /\ pc = [p \in Procs |-> "idle"]
    /\ result = [p \in Procs |-> None]
    /\ dry_run = [p \in Procs |-> FALSE]
    /\ session = [p \in Procs |-> FALSE]
    /\ items = [p \in Procs |-> <<>>]
    /\ done_links = [p \in Procs |-> {}]
    /\ links_for_save = [p \in Procs |-> <<>>]
    /\ pos = [p \in Procs |-> 0]
    /\ wr = [p \in Procs |-> 0]
    /\ n_loaded = [p \in Procs |-> 0]
    /\ snap = [p \in Procs |-> <<>>]
    /\ lastCycle = <<>>
    /\ again = [p \in Procs |-> FALSE]
    /\ recorded = {}
    /\ ev = NoEv
    /\ offered = [p \in Procs |-> 0]
    /\ cycle = [p \in Procs |-> "Uninitialized"]

InitCompose ==
    /\ InitDriver
    /\ sink = [st |-> "idle"]
    /\ post \in PostInit

NextCompose ==
    \/ ComposeBudget
    \/ ComposePanic
    \/ ComposePlainText
    \/ ComposeLink
    \/ ComposeTail

\* The composition of one post over every segment sequence, trailer, limit
\* and build.
SpecCompose == InitCompose /\ [][NextCompose]_vars

----------------------------------------------------------------------------
(* from_html, the segmentation of a description
   (richtext/from_html_impl.rs) *)

\* Longest token stream the tokenizer hands to the sink before EOFToken.
MaxTokens == 3

\* A token of html5ever as far as the sink looks at it.
Tok(t, s, name, self_closing, href) ==
    [t |-> t, s |-> s, name |-> name, self_closing |-> self_closing,
     href |-> href]

\* CharacterTokens, NullCharacterToken, TagToken (br and <br/>, a with and
\* without href, p, the end tags of a and p), CommentToken / DoctypeToken
\* and ParseError.  href is <<>> for a tag without that attribute.
Tokens ==
    {Tok("chars", <<"c1">>, None, FALSE, <<>>),
     Tok("chars", <<"c2", "c3">>, None, FALSE, <<>>),
     Tok("null", <<>>, None, FALSE, <<>>),
     Tok("start", <<>>, "br", FALSE, <<>>),
     Tok("start", <<>>, "br", TRUE, <<>>),
     Tok("start", <<>>, "a", FALSE, <<"c1">>),
     Tok("start", <<>>, "a", FALSE, <<>>),
     Tok("start", <<>>, "p", FALSE, <<>>),
     Tok("end", <<>>, "a", FALSE, <<>>),
     Tok("end", <<>>, "p", FALSE, <<>>),
     Tok("comment", <<>>, None, FALSE, <<>>),
     Tok("error", <<>>, None, FALSE, <<>>)}

\* The token streams of the descriptions.
TokenStreams == UNION {[1..n -> Tokens] : n \in 0..MaxTokens}

\* ProcessState.
NotProcessed ==
    [s |-> "NotProcessed", link_tag_depth |-> 0, link |-> <<>>,
     text_continue |-> <<>>]

ProcessingPlainText(text) ==
    [s |-> "ProcessingPlainText", link_tag_depth |-> 0, link |-> <<>>,
     text_continue |-> text]

ProcessingLink(depth, link, text) ==
    [s |-> "ProcessingLink", link_tag_depth |-> depth, link |-> link,
     text_continue |-> text]

\* RichTextSegment values.
PlainText(text) == [kind |-> "PlainText", text |-> text]

Link(text, link) == [kind |-> "Link", text |-> text, link |-> link]

\* process_plain_char that starts the pending text over at every character.
process_plain_char_Restart(k, c) ==
    [k EXCEPT !.state = ProcessingPlainText(<<c>>)]

\* from_html_impl.rs 27-41.
process_plain_char(k, c) ==
    IF k.state.s = "NotProcessed"
    THEN [k EXCEPT !.state = ProcessingPlainText(<<c>>)]
    ELSE [k EXCEPT !.state.text_continue = Append(@, c)]

\* from_html_impl.rs 134-136: process_plain_char for every character.
RECURSIVE process_chars(_, _)
process_chars(k, cs) ==
    IF cs = <<>> THEN k
    ELSE process_chars(process_plain_char(k, Head(cs)), Tail(cs))

\* from_html_impl.rs 105-125: the pending text becomes a segment; a
\* pending link only when the depth is back at that of its start tag.
end_process(k) ==
    LET pushed ==
            CASE k.state.s = "ProcessingPlainText" ->
                     Append(k.text, PlainText(k.state.text_continue))
              [] k.state.s = "ProcessingLink"
                   /\ ULe(k.tag_depth, k.state.link_tag_depth) ->
                     Append(k.text,
                            Link(k.state.text_continue, k.state.link))
              [] OTHER -> k.text
    IN  [k EXCEPT !.text = pushed, !.state = NotProcessed]

\* from_html_impl.rs 43-76: an anchor without href, or inside a pending
\* link, changes nothing.
process_start_link(k, tag) ==
    IF tag.href = <<>> \/ k.state.s = "ProcessingLink"
    THEN k
    ELSE [end_process(k) EXCEPT
             !.state = ProcessingLink(k.tag_depth, tag.href, <<>>)]

\* from_html_impl.rs 78-91.
process_start_tag(k, tag) ==
    LET done == CASE tag.name = "br" -> process_plain_char(k, "\n")
                  [] tag.name = "a" -> process_start_link(k, tag)
                  [] OTHER -> k
    IN  [done EXCEPT !.tag_depth = @ + 1]

\* from_html_impl.rs 93-103, in a build where the subtraction wraps below
\* zero (a usize below zero is kept as a negative integer).
process_eng_tag(k, tag) ==
    LET down == [k EXCEPT !.tag_depth = @ - 1,
                          !.wrapped = @ \/ k.tag_depth = 0]
    IN  IF tag.name = "a" THEN end_process(down) ELSE down

\* The sink when from_html has created it (lines 169-180) for a description
\* whose tokens are toks.  k counts the tokens handled; wrapped tells that
\* a subtraction has wrapped, which only a build without overflow checks
\* does; ret is the value of from_html.
SinkInit ==
    {[st |-> "run", toks |-> toks, k |-> 0, wrapped |-> FALSE,
      text |-> <<>>, tag_depth |-> 0, state |-> NotProcessed,
      err |-> None, ret |-> <<>>] : toks \in TokenStreams}

\* The token process_token is called with next.
Token(k) == k.toks[k.k + 1]

\* The tokenizer has a token of kind t for the sink.
AtToken(t) ==
    /\ sink.st = "run"
    /\ sink.k < Len(sink.toks)
    /\ Token(sink).t = t

\* sink' is nxt with one more token handled.
Handled(nxt) == sink' = [nxt EXCEPT !.k = @ + 1]

\* from_html_impl.rs 133-137.
SinkChars ==
    /\ AtToken("chars")
    /\ Handled(process_chars(sink, Token(sink).s))
    /\ UNCHANGED <<driverVars, post>>

\* from_html_impl.rs 138-140.
SinkNull ==
    /\ AtToken("null")
    /\ Handled(process_plain_char(sink, "NUL"))
    /\ UNCHANGED <<driverVars, post>>

\* from_html_impl.rs 143-148: a start tag, closed at once when it is
\* self-closing.
SinkStartTag ==
    /\ AtToken("start")
    /\ LET started == process_start_tag(sink, Token(sink))
       IN  Handled(IF Token(sink).self_closing
                   THEN process_eng_tag(started, Token(sink))
                   ELSE started)
    /\ UNCHANGED <<driverVars, post>>

\* from_html_impl.rs 149-151: an end tag; at depth 0 the subtraction wraps.
SinkEndTag ==
    /\ AtToken("end")
    /\ Handled(process_eng_tag(sink, Token(sink)))
    /\ UNCHANGED <<driverVars, post>>

\* from_html_impl.rs 94: at depth 0 the subtraction panics in a build with
\* overflow checks.
SinkEndTagPanic ==
    /\ AtToken("end")
    /\ sink.tag_depth = 0
    /\ ~sink.wrapped
    /\ sink' = [sink EXCEPT !.st = "panic"]
    /\ UNCHANGED <<driverVars, post>>

\* from_html_impl.rs 154-156.
SinkIgnored ==
    /\ AtToken("comment")
    /\ Handled(sink)
    /\ UNCHANGED <<driverVars, post>>

\* An error that is not kept.
SinkParseError_Dropped ==
    /\ AtToken("error")
    /\ Handled(sink)
    /\ UNCHANGED <<driverVars, post>>

\* from_html_impl.rs 160-162: the diagnostic is kept and the stream goes on.
SinkParseError ==
    /\ AtToken("error")
    /\ Handled([sink EXCEPT !.err = "parse error"])
    /\ UNCHANGED <<driverVars, post>>

\* from_html_impl.rs 157-159, 183-192: tokenizer.end() sends EOFToken and
\* from_html returns the error, if one was kept, or the segments.
SinkEOF ==
    /\ sink.st = "run"
    /\ sink.k = Len(sink.toks)
    /\ LET ended == end_process(sink)
       IN  sink' = IF ended.err # None
                   THEN [ended EXCEPT !.st = "Err", !.ret = <<>>]
                   ELSE [ended EXCEPT !.st = "Ok", !.ret = ended.text]
    /\ UNCHANGED <<driverVars, post>>

\* The description of the item: "bad" names the descriptions whose token
\* stream holds a ParseError.
BodyOf(toks) ==
    IF \E j \in 1..Len(toks) : toks[j].t = "error" THEN "bad" ELSE "ok"

\* post_item is at line 334 for the one item of the feed (link a, not in
\* the ledger) in an invocation that holds the lock, and from_html has
\* been called on the description.
InitSeg ==
    /\ sink \in SinkInit
    /\ post = [st |-> "idle"]
    /\ dbExists = TRUE
    /\ dbFile = <<>>
    /\ lockFile = "stamped"
    /\ holds = {Solo}
    /\ posted = {}
    /\ min_save_posts = 1
    /\ pc = [p \in Procs |-> IF p = Solo THEN "item" ELSE "idle"]
    /\ result = [p \in Procs |-> None]
    /\ dry_run = [p \in Procs |-> FALSE]
    /\ session = [p \in Procs |-> p = Solo]
    /\ items = [p \in Procs |->
                   IF p = Solo
                   THEN <<[link |-> "a", body |-> BodyOf(sink.toks)]>>
                   ELSE <<>>]
    /\ offered = [p \in Procs |-> Complete(items[p])]
    /\ cycle = [p \in Procs |-> IF p = Solo THEN "Loaded" ELSE "Uninitialized"]
    /\ done_links = [p \in Procs |-> {}]
    /\ links_for_save = [p \in Procs |-> <<>>]
    /\ pos = [p \in Procs |-> 0]
    /\ wr = [p \in Procs |-> 0]
    /\ n_loaded = [p \in Procs |-> 0]
    /\ snap = [p \in Procs |-> <<>>]
    /\ lastCycle = <<>>
    /\ again = [p \in Procs |-> FALSE]
    /\ recorded = {}
    /\ ev = NoEv

\* main.rs 334: from_html has returned Err and `?` propagates it.
FromHtmlErr ==
    /\ sink.st = "Err"
    /\ ItemParseError(Solo)

\* main.rs 334-417: from_html has returned the segments; the post is
\* composed.
FromHtmlOk ==
    /\ sink.st = "Ok"
    /\ ItemCompose(Solo)

\* The panic in from_html ends the process.
FromHtmlPanic ==
    /\ sink.st = "panic"
    /\ Crash(Solo)

NextSeg ==
    \/ SinkChars
    \/ SinkNull
    \/ SinkStartTag
    \/ SinkEndTag
    \/ SinkEndTagPanic
    \/ SinkIgnored
    \/ SinkParseError
    \/ SinkEOF
    \/ FromHtmlErr
    \/ FromHtmlOk
    \/ FromHtmlPanic

\* The segmentation of every token stream, and what post_item does with
\* its result.
SpecSeg == InitSeg /\ [][NextSeg]_vars

----------------------------------------------------------------------------
(* Properties *)

\* The positions between the load and the rewrite.
InLoop == {"open_append", "item", "submit", "append", "rewrite_open"}

\* All lines of links_for_save are written back: the cycle is complete.
RewriteComplete(p) ==
    pc[p] = "rewrite_write" /\ wr[p] = Len(links_for_save[p])

\* The operations on the ledger file.
LedgerOps == {"create", "read", "open", "append", "truncate", "write"}

\* C1: no identifier is submitted to the posting collaborator again once
\* it has been posted: a step in which create_record succeeds is never for
\* a link that is already posted.
C1_NeverPostedTwice ==
    [][\A p \in Procs :
          (pc[p] = "submit" /\ pc'[p] = "append")
              => CurItem(p).link \notin posted]_vars

\* C2: a run that directly follows a completed cycle on the identical feed
\* makes no posting call, and its rewrite leaves the newest min_save_posts
\* lines of the ledger it found.
C2_SecondRunPostsNothing ==
    \A p \in Procs :
        again[p] =>
            /\ pc[p] \notin {"submit", "append"}
            /\ RewriteComplete(p)
                   => dbFile = LastN(snap[p], min_save_posts)

\* C3 as claimed: after a completed cycle the ledger is exactly the
\* min_save_posts most recent of all lines known in the cycle (loaded and
\* newly posted), or all of them when there are fewer.
C3_KeepsNewestOfAll ==
    \A p \in Procs :
        RewriteComplete(p) => dbFile = LastN(snap[p], min_save_posts)

\* C3 as amended: after a completed cycle the ledger is the min_save_posts
\* most recent of the loaded lines (all when fewer) followed by every link
\* posted in the cycle, in order.
C3_KeepsLoadedTailAndNew ==
    \A p \in Procs :
        RewriteComplete(p) =>
            dbFile = LastN(SubSeq(snap[p], 1, n_loaded[p]), min_save_posts)
                       \o SubSeq(snap[p], n_loaded[p] + 1, Len(snap[p]))

\* A cycle is complete that loaded more than min_save_posts lines and
\* posted a new link.
C3_Witness ==
    \E p \in Procs :
        /\ RewriteComplete(p)
        /\ n_loaded[p] > min_save_posts
        /\ Len(snap[p]) > n_loaded[p]

\* C4: a link appended after its submission is in the ledger before the
\* next item is handled, stays there until a rewrite truncates the file,
\* whatever stops the run, and is read by the run that loads the ledger
\* next.
C4_RecordedIsDurable ==
    /\ recorded \subseteq Range(dbFile)
    /\ \A p \in Procs :
           pc[p] \in InLoop =>
               /\ Range(NewLinks(p)) \subseteq Range(dbFile)
               /\ recorded \subseteq done_links[p] \cup Range(NewLinks(p))

\* A run has loaded the ledger left by a cycle that appended a link and
\* stopped before its rewrite.
C4_Witness ==
    \E p \in Procs :
        /\ pc[p] = "open_append"
        /\ recorded # {}
        /\ recorded \subseteq done_links[p]

\* C5: wherever the rewrite stops, the ledger is either what it was when
\* the rewrite began or the complete retained list.
C5_RewriteIsAtomic ==
    \A p \in Procs :
        pc[p] = "rewrite_write"
            => dbFile = snap[p] \/ dbFile = links_for_save[p]

\* C6 as claimed: every operation on the ledger file is done by an
\* invocation that holds the lock, and at most one invocation holds it.
C6_EveryAccessUnderLock ==
    /\ ev[2] \in LedgerOps => ev[1] \in holds
    /\ Cardinality(holds) <= 1

\* C6 as amended: every read, append-mode open, append, truncate and write
\* of the ledger is done by an invocation that holds the lock, and at most
\* one invocation holds it; the creating open at the start of post_items
\* is the one operation done without the lock.
C6_AccessUnderLockButCreate ==
    /\ ev[2] \in LedgerOps \ {"create"} => ev[1] \in holds
    /\ Cardinality(holds) <= 1

\* An invocation appends to the ledger under the lock while another one
\* is about to ask for the lock.
C6_Witness ==
    \E p, q \in Procs :
        /\ p # q
        /\ ev = <<p, "append", 1>>
        /\ holds = {p}
        /\ pc[q] = "lock"

\* C7: an invocation that has ended, on whatever path, does not hold the
\* lock.
C7_LockReleasedOnExit ==
    \A p \in Procs : pc[p] \in Stopped => p \notin holds

\* After a posting failure ended a cycle, another invocation holds the
\* lock.
C7_Witness ==
    \E p, q \in Procs :
        /\ p # q
        /\ pc[p] = "returned"
        /\ result[p] = "Err: post"
        /\ q \in holds

\* C8: the step in which a submission fails ends the run (no later item is
\* handled), appends nothing to the ledger, and leaves in the ledger every
\* link the run appended before.
C8_SubmissionFailureStopsRun ==
    [][\A p \in Procs :
          (pc[p] = "submit" /\ ev' = <<p, "Err: post", NewCount(p)>>)
              => /\ pc'[p] = "returned"
                 /\ result'[p] = "Err: post"
                 /\ dbFile' = dbFile
                 /\ posted' = posted
                 /\ Range(NewLinks(p)) \subseteq Range(dbFile')]_vars

\* A submission failed in a run that had appended one link before.
C8_Witness ==
    \E p \in Procs :
        /\ ev = <<p, "Err: post", 1>>
        /\ pc[p] = "returned"
        /\ recorded # {}
        /\ recorded \subseteq Range(dbFile)

\* C9: an item without a description or without a link does not end the
\* run: the step that handles it leads to the next item or to the rewrite.
C9_MalformedItemNotFatal ==
    [][\A p \in Procs :
          (/\ pc[p] = "item"
           /\ (CurItem(p).body = None \/ CurItem(p).link = None)
           /\ pc'[p] \notin {"item", "crashed"})
              => pc'[p] = "rewrite_open"]_vars

\* C10: no step of a dry run creates or changes the ledger file or the
\* sentinel file, takes the lock, creates a session or posts.
C10_DryRunChangesNothing ==
    [][\A p \in Procs :
          ((dry_run[p] \/ dry_run'[p]) /\ pc'[p] # pc[p])
              => /\ UNCHANGED <<dbExists, dbFile, lockFile, holds, posted>>
                 /\ ~session'[p]]_vars

\* A dry run is past the block that creates the ledger file, and neither
\* the ledger file nor the sentinel file exists.
C10_Witness ==
    \E p \in Procs :
        /\ dry_run[p]
        /\ pc[p] = "lock"
        /\ ~dbExists
        /\ lockFile = "absent"

\* C11: a dry run returns only after post_item has handled (segmented and
\* composed) every item of the feed that has a description and a link.
C11_DryRunComposesItems ==
    [][\A p \in Procs :
          (dry_run[p] /\ pc'[p] = "returned" /\ result'[p] = "Ok")
              => offered[p] <= pos[p]]_vars

\* C12: the final text of a composed post (body, ellipsis marker, trailing
\* text, item URL) has at most post_text_limit characters.
C12_TextWithinLimit ==
    post.st = "done" => Len(post.content) <= post.post_text_limit

\* The Link segments the loop has handled, in order.
LinkSegs(q) ==
    SelectSeq(SubSeq(q.segs, 1, q.i), LAMBDA g : g.kind = "Link")

\* C13: in a composed post every span has 0 <= byte_start <= byte_end <=
\* byte length of the final text, no span begins before the one emitted
\* before it ends, the spans are those of the Link segments in segment
\* order, and the span of the item URL is the last.
C13_SpansOrderedInRange ==
    post.st = "done" =>
        LET f == post.facets
            n == Len(f)
        IN  /\ n = Len(LinkSegs(post)) + 1
            /\ \A k \in 1..n :
                   /\ 0 <= f[k].byte_start
                   /\ f[k].byte_start <= f[k].byte_end
                   /\ f[k].byte_end <= ByteLen(post.content)
            /\ \A k \in 1..(n - 1) :
                   /\ f[k].byte_end <= f[k + 1].byte_start
                   /\ f[k].uri = LinkSegs(post)[k].link
            /\ f[n].uri = post.item_link
            /\ f[n].byte_end = ByteLen(post.content)

\* A composed post with the spans of two Link segments, the second one cut,
\* and the span of the item URL.
C13_Witness ==
    /\ post.st = "done"
    /\ Len(post.facets) = 3
    /\ post.need_truncate
    /\ post.facets[1].byte_start < post.facets[1].byte_end
    /\ post.facets[2].byte_start < post.facets[2].byte_end

\* The byte offsets of the final text at which a character begins or ends.
Boundaries(t) == {ByteLen(SubSeq(t, 1, n)) : n \in 0..Len(t)}

\* The bytes of text t from offset a up to offset b.
Slice(t, a, b) == SubSeq(Bytes(t), a + 1, b)

\* C14: in a composed post both ends of every span are character
\* boundaries of the final text; the bytes of the last span are the item
\* URL and those of the k-th other span are the text of the k-th Link
\* segment, whole unless it is the segment the composition was cut in, and
\* then its first characters.
C14_SpansRoundTrip ==
    post.st = "done" =>
        LET f == post.facets
            n == Len(f)
            ls == LinkSegs(post)
        IN  /\ n = Len(ls) + 1
            /\ \A k \in 1..n :
                   {f[k].byte_start, f[k].byte_end}
                       \subseteq Boundaries(post.content)
            /\ \A k \in 1..(n - 1) :
                   LET cut == /\ k = n - 1
                              /\ post.need_truncate
                              /\ post.segs[post.i].kind = "Link"
                       got == Slice(post.content, f[k].byte_start,
                                    f[k].byte_end)
                   IN  IF cut
                       THEN \E m \in 0..(Len(ls[k].text) - 1) :
                                got = Bytes(SubSeq(ls[k].text, 1, m))
                       ELSE got = Bytes(ls[k].text)
            /\ Slice(post.content, f[n].byte_start, f[n].byte_end)
                   = Bytes(post.item_link)

\* A composed post whose Link segment of multi-byte characters was cut
\* after its first character, behind a PlainText segment.
C14_Witness ==
    /\ post.st = "done"
    /\ post.need_truncate
    /\ Len(post.facets) = 2
    /\ post.i = 2
    /\ post.facets[1].byte_start > 1
    /\ post.facets[1].byte_end - post.facets[1].byte_start = 4
    /\ ByteLen(post.item_link) > Len(post.item_link)

\* C15: every turn of the loop over the segments happens before any cut;
\* a text of at most limit_count characters is appended whole, the budget
\* goes down by its count and need_truncate stays unset; a longer text
\* contributes its first limit_count characters and sets need_truncate.
C15_FitOrTruncate ==
    [][(post.st = "segs" /\ post'.st = "segs" /\ post' # post) =>
          LET t == Seg(post).text
          IN  /\ ~post.need_truncate
              /\ post'.i = post.i + 1
              /\ IF ULe(Len(t), post.limit_count)
                 THEN /\ post'.content = post.content \o t
                      /\ post'.limit_count = post.limit_count - Len(t)
                      /\ ~post'.need_truncate
                 ELSE /\ post'.content
                             = post.content \o SubSeq(t, 1, post.limit_count)
                      /\ post'.need_truncate
              /\ Len(post'.facets) =
                     Len(post.facets)
                         + (IF Seg(post).kind = "Link" THEN 1 ELSE 0)]_vars

\* A segment of several characters has exactly filled the budget, no cut
\* is flagged and another segment follows.
C15_Witness ==
    /\ post.st = "segs"
    /\ post.i = 1
    /\ Len(post.segs) = 2
    /\ Len(post.segs[1].text) > 1
    /\ post.content = post.segs[1].text
    /\ post.limit_count = 0
    /\ ~post.need_truncate

\* The character data of a token stream in document order, with one
\* newline for every line-break element.
RECURSIVE CharData(_)
CharData(toks) ==
    IF toks = <<>> THEN <<>>
    ELSE LET h == Head(toks)
         IN  (CASE h.t = "chars" -> h.s
                [] h.t = "null" -> <<"NUL">>
                [] h.t = "start" /\ h.name = "br" -> <<"\n">>
                [] OTHER -> <<>>)
                 \o CharData(Tail(toks))

\* The elements left open after toks, innermost first, or <<"bad">> when an
\* end tag does not close the innermost open element.  br is a void
\* element and a self-closing tag opens nothing.
RECURSIVE OpenElements(_, _)
OpenElements(toks, open) ==
    IF toks = <<>> THEN open
    ELSE LET h == Head(toks)
         IN  CASE h.t = "start" /\ h.name # "br" /\ ~h.self_closing ->
                      OpenElements(Tail(toks), <<h.name>> \o open)
               [] h.t = "end" ->
                      IF open # <<>> /\ Head(open) = h.name
                      THEN OpenElements(Tail(toks), Tail(open))
                      ELSE <<"bad">>
               [] OTHER -> OpenElements(Tail(toks), open)

\* Well-formed HTML: no parse error and every element closed in order.
WellFormed(toks) ==
    /\ \A j \in 1..Len(toks) : toks[j].t # "error"
    /\ OpenElements(toks, <<>>) = <<>>

\* The tags of the anchor elements.
AnchorTags(toks) == SelectSeq(toks, LAMBDA t : t.name = "a")

\* C16 as claimed: for well-formed HTML without an anchor element from_html
\* returns exactly one PlainText segment, whose text is the character data
\* in document order with a newline for every line-break element.
C16_ExactlyOnePlainText ==
    (/\ sink.st = "Ok"
     /\ WellFormed(sink.toks)
     /\ AnchorTags(sink.toks) = <<>>)
        => sink.ret = <<PlainText(CharData(sink.toks))>>

\* C16 as amended: for well-formed HTML without an anchor element from_html
\* returns no segment when there is no character data and no line break,
\* and otherwise exactly one PlainText segment, whose text is the character
\* data in document order with a newline for every line-break element.
C16_OnePlainTextUnlessEmpty ==
    (/\ sink.st = "Ok"
     /\ WellFormed(sink.toks)
     /\ AnchorTags(sink.toks) = <<>>)
        => sink.ret = IF CharData(sink.toks) = <<>> THEN <<>>
                      ELSE <<PlainText(CharData(sink.toks))>>

\* from_html has returned one PlainText segment for text, a line break and
\* text.
C16_Witness ==
    /\ sink.st = "Ok"
    /\ WellFormed(sink.toks)
    /\ AnchorTags(sink.toks) = <<>>
    /\ Len(sink.ret) = 1
    /\ Len(sink.ret[1].text) > 2
    /\ sink.ret[1].text[1] # "\n"
    /\ \E j \in 2..(Len(sink.ret[1].text) - 1) : sink.ret[1].text[j] = "\n"

\* The texts of the segments, one after the other.
RECURSIVE SegTexts(_)
SegTexts(segs) ==
    IF segs = <<>> THEN <<>> ELSE Head(segs).text \o SegTexts(Tail(segs))

\* C17: for well-formed HTML whose anchors all carry an href and are not
\* nested, from_html returns one Link segment per anchor, with the href of
\* the anchor, the texts of the segments are the character data in document
\* order, and no PlainText segment is empty.
C17_OneLinkPerAnchor ==
    (/\ sink.st = "Ok"
     /\ WellFormed(sink.toks)
     /\ \A j \in 1..Len(AnchorTags(sink.toks)) :
            LET t == AnchorTags(sink.toks)[j]
            IN  IF j % 2 = 1 THEN t.t = "start" /\ t.href # <<>>
                ELSE t.t = "end")
        => LET links == SelectSeq(sink.ret, LAMBDA g : g.kind = "Link")
               starts == SelectSeq(AnchorTags(sink.toks),
                                   LAMBDA t : t.t = "start")
           IN  /\ Len(links) = Len(starts)
               /\ \A j \in 1..Len(links) : links[j].link = starts[j].href
               /\ SegTexts(sink.ret) = CharData(sink.toks)
               /\ \A j \in 1..Len(sink.ret) :
                      sink.ret[j].kind = "PlainText"
                          => sink.ret[j].text # <<>>

\* No identifier is on two lines.
NoDuplicate(lines) ==
    \A i, j \in 1..Len(lines) : lines[i] = lines[j] => i = j

\* C18: when a cycle completes, the ledger holds no identifier twice.
C18_LedgerDuplicateFree ==
    \A p \in Procs : RewriteComplete(p) => NoDuplicate(dbFile)

\* C19: the step that handles the end of input pushes what is pending as
\* the last segment: pending plain text as a PlainText segment, a pending
\* link as a Link segment with the buffered text and its href.
C19_EndOfInputFlushes ==
    [][(sink.st = "run" /\ sink'.st \in {"Ok", "Err"}) =>
          sink'.text =
              CASE sink.state.s = "ProcessingPlainText" ->
                       Append(sink.text,
                              PlainText(sink.state.text_continue))
                [] sink.state.s = "ProcessingLink" ->
                       Append(sink.text,
                              Link(sink.state.text_continue,
                                   sink.state.link))
                [] OTHER -> sink.text]_vars

\* C20: once a ParseError token was handled, the diagnostic is kept,
\* from_html never returns segments (an Err carries none), and the run ends
\* with the parse error without the item being submitted or recorded.
C20_ParseErrorAborts ==
    (\E j \in 1..sink.k : sink.toks[j].t = "error") =>
        /\ sink.err # None
        /\ sink.st # "Ok"
        /\ sink.st = "Err" => sink.ret = <<>>
        /\ pc[Solo] \in {"item", "returned", "crashed"}
        /\ pc[Solo] = "returned" => result[Solo] = "Err: parse"
        /\ posted = {}
        /\ dbFile = <<>>

\* The run has ended with the parse error of a description whose error
\* token came between two runs of text, both of which the sink has pushed
\* as a segment.
C20_Witness ==
    /\ sink.st = "Err"
    /\ pc[Solo] = "returned"
    /\ result[Solo] = "Err: parse"
    /\ Len(sink.toks) = 3
    /\ sink.toks[1].t = "chars"
    /\ sink.toks[2].t = "error"
    /\ sink.toks[3].t = "chars"
    /\ Len(sink.text) = 1
    /\ sink.text[1].text = sink.toks[1].s \o sink.toks[3].s

\* C21: in one cycle the ledger is read to its end once, before anything
\* else is done to its content; links are appended only after that and
\* before the truncating open of the rewrite; that open happens once, only
\* the lines of the rewrite are written after it, and nothing but an
\* append, the truncation and those lines changes the content of the file
\* (the creating open and the append-mode open leave it as it is).
C21_LoadAppendRewriteOrder ==
    [][/\ dbFile' # dbFile => ev'[2] \in {"append", "truncate", "write"}
       /\ \A p \in Procs :
              LET op == IF ev'[1] = p THEN ev'[2] ELSE None
              IN  /\ op = "create" => cycle[p] = "Uninitialized"
                  /\ op = "read" =>
                         /\ cycle[p] = "Uninitialized"
                         /\ cycle'[p] = "Loaded"
                  /\ op = "open" => cycle[p] = "Loaded"
                  /\ op = "append" =>
                         /\ cycle[p] \in {"Loaded", "Appending"}
                         /\ cycle'[p] = "Appending"
                  /\ op = "truncate" =>
                         /\ cycle[p] \in {"Loaded", "Appending"}
                         /\ cycle'[p] = "Rewritten"
                  /\ op = "write" =>
                         /\ cycle[p] = "Rewritten"
                         /\ cycle'[p] = "Rewritten"
                  /\ cycle[p] = "Rewritten" =>
                         \/ op = "write"
                         \/ pc'[p] \in Stopped
                         \/ UNCHANGED <<pc[p], dbFile>>]_vars

\* A cycle has read a ledger of one line, appended a link and written
\* both lines back.
C21_Witness ==
    \E p \in Procs :
        /\ cycle[p] = "Rewritten"
        /\ ev = <<p, "write", 1>>
        /\ n_loaded[p] = 1
        /\ wr[p] = 2
        /\ dbFile = links_for_save[p]

\* C22: the subtraction that gives the initial budget does not go below
\* zero (it neither aborts nor wraps), and the remaining budget is a number
\* from 0 to post_text_limit at the start and after every segment.
C22_BudgetInRange ==
    /\ post.st # "panic"
    /\ post.st \in {"segs", "done"} =>
           /\ 0 <= post.limit_count
           /\ post.limit_count <= post.post_text_limit

\* C23: when from_html returns segments (the token stream held no parse
\* error), their texts one after the other are all the character data of
\* the stream in document order with one newline for every line-break
\* element, whatever the anchors of the stream contain and whether or not
\* they are closed.
C23_NoTextLost ==
    sink.st = "Ok" => SegTexts(sink.ret) = CharData(sink.toks)

\* C24: the depth counter of the sink never goes below zero: no end tag,
\* matched by a start tag or not, makes the decrement abort or wrap.
C24_DepthNeverNegative ==
    /\ sink.st # "panic"
    /\ sink.st \in {"run", "Ok", "Err"} =>
           /\ sink.tag_depth >= 0
           /\ ~sink.wrapped

====
